---- MODULE Spec2Model ----
(***************************************************************************)
(* Florida2000: reading 80-column punched cards from scanned images.       *)
(* A model of class PunchedCard of src/florida2000.py.                     *)
(*                                                                         *)
(* Real-valued quantities of the program are multiples of .05 pixel in the *)
(* cases modelled; they are kept as exact fixed-point integers:            *)
(*   - drift (delta_x, delta_y) and x coordinates in units of 1/UNIT pixel *)
(*   - slopes and intercepts of the edge lines in units of 1/SLOPE_DEN     *)
(*   - y coordinates of hole_coord in units of 1/(UNIT*SLOPE_DEN) pixel    *)
(* Python's int() is Trunc (towards zero).  Binary floating point rounding *)
(* of the program's doubles is not modelled.                               *)
(***************************************************************************)
EXTENDS Integers, Sequences, FiniteSets, TLC

VARIABLES
    front,      \* __init__ argument: False reverses the order of the rows
    debug,      \* self.debug: TRUE when a debug image was requested
    holes,      \* self.holes: list of columns, each a list of 0/1
    values,     \* self.values
    lrl,        \* self.lrl: left edge line  [intercept, slope]
    lrr,        \* self.lrr: right edge line [intercept, slope]
    y_front,    \* self.y_front
    delta_x,    \* find_holes local, in 1/UNIT pixel
    delta_y,    \* find_holes local, in 1/UNIT pixel
    col,        \* find_holes loop variable
    row,        \* find_holes loop variable
    args,       \* the (x, y) of the latest is_hole call
    res,        \* the latest is_hole return value <<hole, w, dx, dy>>
    ebcdic_out, \* the return value of ebcdic()
    pc,         \* position in the program
    im,         \* self.im, as the pixels written since imread: <<y, x>> -> pixel
    threshold,  \* self.threshold
    card,       \* the scanned image (the input): what imread returned
    cl,         \* measure_skew local: search centre of the left edge
    cr,         \* measure_skew local: search centre of the right edge
    ys,         \* measure_skew local: the rows sampled
    left,       \* measure_skew local: the left edge found on each sampled row
    right       \* measure_skew local: the right edge found on each sampled row

vars == <<front, debug, holes, values, lrl, lrr, y_front, delta_x, delta_y,
          col, row, args, res, ebcdic_out, pc, im, threshold, card,
          cl, cr, ys, left, right>>

\* The locals of measure_skew.
skewvars == <<cl, cr, ys, left, right>>

\* measure_skew has returned: its locals are gone.
SkewReturned == cl = 0 /\ cr = 0 /\ ys = <<>> /\ left = <<>> /\ right = <<>>

---------------------------------------------------------------------------
(* Program constants *)

DPI == 150
HOLE_Y == 3
HOLE_X == 6
THRESHOLD == 50
EDGE_WIN == 10
EXPECT_LEFT_EDGE == 50
EXPECT_RIGHT_EDGE == -50
NCOLS == 80
NROWS == 12
\* measure_skew samples the rows range(SKEW_FIRST, ymax - SKEW_MARGIN, SKEW_STEP)
SKEW_FIRST == 100
SKEW_MARGIN == 200
SKEW_STEP == 100
\* find_front_edge scans the rows range(ymax - FRONT_SKIP, ymax - FRONT_DEPTH, -1)
FRONT_SKIP == 20
FRONT_DEPTH == 200
\* find_front_edge draws the front edge FRONT_HALF columns to each side (debug)
FRONT_HALF == 100

\* Fixed-point resolution: 1/UNIT pixel (.05 pixel).
UNIT == 20
\* FINE_TUNE = .05, in 1/UNIT
FINE_TUNE == 1
\* .25 * DPI (row pitch and front margin) and .087 * DPI (column pitch), in 1/UNIT
QUARTER_INCH == (25 * DPI * UNIT) \div 100
COL_PITCH == (87 * DPI * UNIT) \div 1000
\* CARD_X = 13 * .25 * DPI, in 1/UNIT
CARD_X == 13 * QUARTER_INCH

\* The search offsets of is_hole, in the order the loops visit them.
DXS == <<-1, 0, 1>>
DYS == <<-2, -1, 0, 1, 2>>
OFFSETS == [i \in 1..(Len(DXS) * Len(DYS)) |->
              <<DXS[((i - 1) \div Len(DYS)) + 1], DYS[((i - 1) % Len(DYS)) + 1]>>]

HOLLERITH_TO_EBCDIC == <<
    <<2819, 0>>, <<2305, 1>>, <<2177, 2>>, <<2113, 3>>,
    <<2081, 4>>, <<2065, 5>>, <<2057, 6>>, <<2053, 7>>,
    <<2051, 8>>, <<2307, 9>>, <<2179, 10>>, <<2115, 11>>,
    <<2083, 12>>, <<2067, 13>>, <<2059, 14>>, <<2055, 15>>,
    <<3331, 16>>, <<1281, 17>>, <<1153, 18>>, <<1089, 19>>,
    <<1057, 20>>, <<1041, 21>>, <<1033, 22>>, <<1029, 23>>,
    <<1027, 24>>, <<1283, 25>>, <<1155, 26>>, <<1091, 27>>,
    <<1059, 28>>, <<1043, 29>>, <<1035, 30>>, <<1031, 31>>,
    <<1795, 32>>, <<769, 33>>, <<641, 34>>, <<577, 35>>,
    <<545, 36>>, <<529, 37>>, <<521, 38>>, <<517, 39>>,
    <<515, 40>>, <<771, 41>>, <<643, 42>>, <<579, 43>>,
    <<547, 44>>, <<531, 45>>, <<523, 46>>, <<519, 47>>,
    <<3843, 48>>, <<257, 49>>, <<129, 50>>, <<65, 51>>,
    <<33, 52>>, <<17, 53>>, <<9, 54>>, <<5, 55>>,
    <<3, 56>>, <<259, 57>>, <<131, 58>>, <<67, 59>>,
    <<35, 60>>, <<19, 61>>, <<11, 62>>, <<7, 63>>,
    <<0, 64>>, <<2817, 65>>, <<2689, 66>>, <<2625, 67>>,
    <<2593, 68>>, <<2577, 69>>, <<2569, 70>>, <<2565, 71>>,
    <<2563, 72>>, <<2306, 73>>, <<2178, 74>>, <<2114, 75>>,
    <<2082, 76>>, <<2066, 77>>, <<2058, 78>>, <<2054, 79>>,
    <<2048, 80>>, <<3329, 81>>, <<3201, 82>>, <<3137, 83>>,
    <<3105, 84>>, <<3089, 85>>, <<3081, 86>>, <<3077, 87>>,
    <<3075, 88>>, <<1282, 89>>, <<1154, 90>>, <<1090, 91>>,
    <<1058, 92>>, <<1042, 93>>, <<1034, 94>>, <<1030, 95>>,
    <<1024, 96>>, <<768, 97>>, <<1665, 98>>, <<1601, 99>>,
    <<1569, 100>>, <<1553, 101>>, <<1545, 102>>, <<1541, 103>>,
    <<1539, 104>>, <<770, 105>>, <<3072, 106>>, <<578, 107>>,
    <<546, 108>>, <<530, 109>>, <<522, 110>>, <<518, 111>>,
    <<3584, 112>>, <<3841, 113>>, <<3713, 114>>, <<3649, 115>>,
    <<3617, 116>>, <<3601, 117>>, <<3593, 118>>, <<3589, 119>>,
    <<3587, 120>>, <<258, 121>>, <<130, 122>>, <<66, 123>>,
    <<34, 124>>, <<18, 125>>, <<10, 126>>, <<6, 127>>,
    <<2818, 128>>, <<2816, 129>>, <<2688, 130>>, <<2624, 131>>,
    <<2592, 132>>, <<2576, 133>>, <<2568, 134>>, <<2564, 135>>,
    <<2562, 136>>, <<2561, 137>>, <<2690, 138>>, <<2626, 139>>,
    <<2594, 140>>, <<2578, 141>>, <<2570, 142>>, <<2566, 143>>,
    <<3330, 144>>, <<3328, 145>>, <<3200, 146>>, <<3136, 147>>,
    <<3104, 148>>, <<3088, 149>>, <<3080, 150>>, <<3076, 151>>,
    <<3074, 152>>, <<3073, 153>>, <<3202, 154>>, <<3138, 155>>,
    <<3106, 156>>, <<3090, 157>>, <<3082, 158>>, <<3078, 159>>,
    <<1794, 160>>, <<1792, 161>>, <<1664, 162>>, <<1600, 163>>,
    <<1568, 164>>, <<1552, 165>>, <<1544, 166>>, <<1540, 167>>,
    <<1538, 168>>, <<1537, 169>>, <<1666, 170>>, <<1602, 171>>,
    <<1570, 172>>, <<1554, 173>>, <<1546, 174>>, <<1542, 175>>,
    <<3842, 176>>, <<3840, 177>>, <<3712, 178>>, <<3648, 179>>,
    <<3616, 180>>, <<3600, 181>>, <<3592, 182>>, <<3588, 183>>,
    <<3586, 184>>, <<3585, 185>>, <<3714, 186>>, <<3650, 187>>,
    <<3618, 188>>, <<3602, 189>>, <<3594, 190>>, <<3590, 191>>,
    <<2560, 192>>, <<2304, 193>>, <<2176, 194>>, <<2112, 195>>,
    <<2080, 196>>, <<2064, 197>>, <<2056, 198>>, <<2052, 199>>,
    <<2050, 200>>, <<2049, 201>>, <<2691, 202>>, <<2627, 203>>,
    <<2595, 204>>, <<2579, 205>>, <<2571, 206>>, <<2567, 207>>,
    <<1536, 208>>, <<1280, 209>>, <<1152, 210>>, <<1088, 211>>,
    <<1056, 212>>, <<1040, 213>>, <<1032, 214>>, <<1028, 215>>,
    <<1026, 216>>, <<1025, 217>>, <<3203, 218>>, <<3139, 219>>,
    <<3107, 220>>, <<3091, 221>>, <<3083, 222>>, <<3079, 223>>,
    <<642, 224>>, <<1793, 225>>, <<640, 226>>, <<576, 227>>,
    <<544, 228>>, <<528, 229>>, <<520, 230>>, <<516, 231>>,
    <<514, 232>>, <<513, 233>>, <<1667, 234>>, <<1603, 235>>,
    <<1571, 236>>, <<1555, 237>>, <<1547, 238>>, <<1543, 239>>,
    <<512, 240>>, <<256, 241>>, <<128, 242>>, <<64, 243>>,
    <<32, 244>>, <<16, 245>>, <<8, 246>>, <<4, 247>>,
    <<2, 248>>, <<1, 249>>, <<3715, 250>>, <<3651, 251>>,
    <<3619, 252>>, <<3603, 253>>, <<3595, 254>>, <<3591, 255>>
>>

---------------------------------------------------------------------------
(* Model bounds *)

\* Edge line slopes and intercepts are multiples of 1/SLOPE_DEN.
SLOPE_DEN == 100
\* Slopes of the fitted edge lines range over -MaxSkew..MaxSkew (in 1/SLOPE_DEN).
MaxSkew == 1
\* The cards' registration errors start at offsets 1..MaxShift+1 of OFFSETS.
MaxShift == 1

---------------------------------------------------------------------------
(* Helpers *)

\* Python int(n/d) for d > 0: truncation towards zero.
Trunc(n, d) == IF n >= 0 THEN n \div d ELSE -((-n) \div d)

RECURSIVE Pow2(_)
Pow2(n) == IF n = 0 THEN 1 ELSE 2 * Pow2(n - 1)

\* reversed(r)
Reversed(r) == [i \in 1..Len(r) |-> r[Len(r) + 1 - i]]

RECURSIVE SumSeq(_)
SumSeq(s) == IF s = <<>> THEN 0 ELSE Head(s) + SumSeq(Tail(s))

---------------------------------------------------------------------------
(* Geometry: center_x and hole_coord *)

\* center_x(y) for the edge lines l and r, y given in 1/(UNIT*SLOPE_DEN) pixel.
CenterOf(l, r, yq) ==
    LET x1 == Trunc(l.intercept * UNIT * SLOPE_DEN + yq * l.slope,
                    UNIT * SLOPE_DEN * SLOPE_DEN)
        x2 == Trunc(r.intercept * UNIT * SLOPE_DEN + yq * r.slope,
                    UNIT * SLOPE_DEN * SLOPE_DEN)
    IN  Trunc(x1 + x2, 2)

\* center_x(y), for y given in 1/(UNIT*SLOPE_DEN) pixel.
center_x(yq) == CenterOf(lrl, lrr, yq)

\* hole_coord(col, row): its local dx, in 1/UNIT pixel
hole_dx(r) == ((2 * r - 13) * QUARTER_INCH) \div 2

\* hole_coord(col, row): its y, in 1/(UNIT*SLOPE_DEN) pixel
hole_y(c, r) ==
    y_front * UNIT * SLOPE_DEN
    - (QUARTER_INCH + COL_PITCH * (c - 1)) * SLOPE_DEN
    - hole_dx(r) * lrr.slope

\* hole_coord(col, row): its x, in 1/UNIT pixel
hole_x(c, r) == center_x(hole_y(c, r)) * UNIT + hole_dx(r)

\* hole_coord(col, row): <<x, y>>
hole_coord(c, r) == <<hole_x(c, r), hole_y(c, r)>>

\* The integer pixel find_holes passes to is_hole for the current cell.
CellX == Trunc(hole_coord(col, row)[1] + delta_x, UNIT)
CellY == Trunc(hole_coord(col, row)[2] + delta_y * SLOPE_DEN, UNIT * SLOPE_DEN)

---------------------------------------------------------------------------
(* The image and is_hole *)

\* Punch patterns of a column: the set of punched physical rows (1 = top).
Seeds == {{}, {1}, {NROWS}, {1, 3, 4, NROWS}, {4, 5}, 1..NROWS}
Spans == {1, NCOLS}

\* Physical column c carries the seed pattern rotated by c-1 rows, in the
\* first card.span columns; the other columns are blank.
PunchedAt(c, i) ==
    /\ c <= card.span
    /\ ((i - 1 + (NROWS - 1) * (c - 1)) % NROWS) + 1 \in card.seed

\* len(im.shape) == 3 for a colour image, whose shape[2] is card.channels;
\* card.channels = 0 stands for a greyscale image (a 2-dimensional array).
NChan == IF card.channels = 0 THEN 1 ELSE card.channels

\* A "card" image: card material of one level with a dark rectangle for every
\* punched hole, centred on row card.ys[c] and column card.xs[r] of the image
\* for physical column c and row r, and exceeding the detection window by
\* card.mx columns and card.my rows on each side.
\* The columns are COL_PITCH apart and the rows QUARTER_INCH: the pixel can only
\* lie in a hole of the nearest physical column and row.
InPunchedHole(yy, xx) ==
    \E c \in {Trunc((card.ys[1] - yy) * UNIT + COL_PITCH \div 2, COL_PITCH) + 1} :
        /\ c >= 1 /\ c <= NCOLS
        /\ yy >= card.ys[c] - HOLE_Y - card.my
        /\ yy <= card.ys[c] + HOLE_Y + card.my
        /\ \E r \in {Trunc((xx - card.xs[1]) * UNIT + QUARTER_INCH \div 2, QUARTER_INCH) + 1} :
              /\ r >= 1 /\ r <= NROWS
              /\ xx >= card.xs[r] - HOLE_X - card.mx
              /\ xx <= card.xs[r] + HOLE_X + card.mx
              /\ PunchedAt(c, r)

\* An "edges" image: a card of one level on a black background, whose left
\* edge is at column card.left and whose right edge at column card.right on row
\* 0, both leaning by card.lean columns every SKEW_STEP rows.
EdgeAt(x0, yy) == x0 + (card.lean * yy) \div SKEW_STEP

\* The intensity imread returned at row yy, column xx, channel ch.  A "speck"
\* image is a background level with one speck, which differs in its first
\* channel; an "edges" image is a card on a black background; a "front" image
\* is such a card that ends above row card.bottom, its front edge; a "card"
\* image is card material of one level with dark holes.
Loaded(yy, xx, ch) ==
    IF card.kind = "speck"
    THEN IF yy = card.speck_y /\ xx = card.speck_x /\ ch = 1
         THEN card.speck ELSE card.level
    ELSE IF card.kind = "edges"
    THEN IF xx >= EdgeAt(card.left, yy) /\ xx < EdgeAt(card.right, yy)
         THEN card.level ELSE 0
    ELSE IF card.kind = "front"
    THEN IF yy < card.bottom /\ xx >= EdgeAt(card.left, yy) /\ xx < EdgeAt(card.right, yy)
         THEN card.level ELSE 0
    ELSE IF InPunchedHole(yy, xx) THEN 0 ELSE card.level

\* self.im[yy][xx], channel ch (the pixels written hold one value per channel)
Px(yy, xx, ch) ==
    IF <<yy, xx>> \in DOMAIN im THEN im[<<yy, xx>>][ch] ELSE Loaded(yy, xx, ch)

RECURSIVE SumRange(_, _, _)
\* sum of F(i) for i in lo..hi
SumRange(F(_), lo, hi) == IF lo > hi THEN 0 ELSE F(lo) + SumRange(F, lo + 1, hi)

\* self.im[yy][xx].sum(): all channels of one pixel
PixelSum(yy, xx) == LET C(ch) == Px(yy, xx, ch) IN SumRange(C, 1, NChan)

RECURSIVE SeqOf(_, _, _)
\* <<F(lo), ..., F(hi)>>
SeqOf(F(_), lo, hi) == IF lo > hi THEN <<>> ELSE <<F(lo)>> \o SeqOf(F, lo + 1, hi)

\* The largest offsets of the search of is_hole.
MAX_DX == DXS[Len(DXS)]
MAX_DY == DYS[Len(DYS)]

\* The pixels the search of is_hole(x, y) reads, each summed over its channels:
\* rows y-HOLE_Y-MAX_DY .. y+HOLE_Y+MAX_DY, columns x-HOLE_X-MAX_DX ..
\* x+HOLE_X+MAX_DX.  The search writes nothing, so it is run on this copy.
Patch(x, y) ==
    LET Line(yy) == LET P(xx) == PixelSum(yy, xx)
                    IN SeqOf(P, x - HOLE_X - MAX_DX, x + HOLE_X + MAX_DX)
    IN  SeqOf(Line, y - HOLE_Y - MAX_DY, y + HOLE_Y + MAX_DY)

\* self.threshold, as __init__ sets it
InitThreshold_NoChannels == (2 * HOLE_X + 1) * (2 * HOLE_Y + 1) * THRESHOLD
InitThreshold ==
    (2 * HOLE_X + 1) * (2 * HOLE_Y + 1) * THRESHOLD
        * (IF card.channels = 0 THEN 1 ELSE card.channels)

\* w = 9e9: larger than every window sum; the largest integer stands for it.
W_INIT == 2147483647

\* ww(dx, dy) of is_hole(x, y):
\* self.im[dy-HOLE_Y:dy+HOLE_Y+1, dx-HOLE_X:dx+HOLE_X+1].sum(), dx and dy
\* being x + dx and y + dy; patch[i][j] is row y-HOLE_Y-MAX_DY+i-1, column
\* x-HOLE_X-MAX_DX+j-1.
ww(patch, dx, dy) ==
    LET Line(i) == LET P(j) == patch[i][j]
                   IN SumRange(P, dx + MAX_DX + 1, dx + MAX_DX + 2 * HOLE_X + 1)
    IN  SumRange(Line, dy + MAX_DY + 1, dy + MAX_DY + 2 * HOLE_Y + 1)

\* if w2 < w: w = w2; off = (dx, dy)
Better(w2, off2, best) == IF w2 < best[1] THEN <<w2, off2>> ELSE best

RECURSIVE BestOffset(_, _, _)
\* The loops over dx and dy from offset number i on, best = <<w, off>> so far.
BestOffset(patch, i, best) ==
    IF i > Len(OFFSETS) THEN best
    ELSE BestOffset(patch, i + 1,
                    Better(ww(patch, OFFSETS[i][1], OFFSETS[i][2]), OFFSETS[i], best))

\* if w < self.threshold
IsDark_OrEqual(w) == w <= threshold
IsDark(w) == w < threshold

\* The white outline drawn where a hole was found: the pixels written.
Outline(x, y, off) ==
    LET ry == y + off[1]
        rx == x + off[2]
    IN  {<<ry + HOLE_Y, rx + dx>> : dx \in 0..HOLE_X}
        \cup {<<ry + HOLE_Y, rx - dx>> : dx \in 0..HOLE_X}
        \cup {<<ry - HOLE_Y, rx + dx>> : dx \in 0..HOLE_X}
        \cup {<<ry - HOLE_Y, rx - dx>> : dx \in 0..HOLE_X}
        \cup {<<ry + dy, rx - HOLE_X>> : dy \in 0..HOLE_Y}
        \cup {<<ry - dy, rx - HOLE_X>> : dy \in 0..HOLE_Y}
        \cup {<<ry + dy, rx + HOLE_X>> : dy \in 0..HOLE_Y}
        \cup {<<ry - dy, rx + HOLE_X>> : dy \in 0..HOLE_Y}

\* The window dimmed where no hole was found (debug only): //= 3, += 128 on uint8.
Dimmed(x, y) ==
    {<<yy, xx>> : yy \in (y - HOLE_Y)..(y + HOLE_Y), xx \in (x - HOLE_X)..(x + HOLE_X)}

\* is_hole(x, y) once the loops have found the best <<w, off>>: its return
\* value and self.im after it.
IsHoleResult(x, y, best) ==
    LET w   == best[1]
        off == best[2]
    IN  IF IsDark(w)
        THEN [ret |-> <<1, w, off[1], off[2]>>,
              im  |-> [p \in Outline(x, y, off) |-> [ch \in 1..NChan |-> 255]] @@ im]
        ELSE [ret |-> <<0, 0, 0, 0>>,
              im  |-> IF debug
                      THEN [p \in Dimmed(x, y) |->
                              [ch \in 1..NChan |->
                                  ((Px(p[1], p[2], ch) \div 3) + 128) % 256]] @@ im
                      ELSE im]

\* is_hole(x, y).  (The sets bind the pixels read and the result of the search,
\* each computed once.)
is_hole(x, y) ==
    CHOOSE r \in {IsHoleResult(x, y, b) :
                    b \in {BestOffset(patch, 1, <<W_INIT, <<0, 0>>>>) : patch \in {Patch(x, y)}}} :
        TRUE

---------------------------------------------------------------------------
(* The card decks: what the scanner saw *)

\* The physical row under the k-th cell find_holes looks at in a column: a back
\* face scan is the mirror image, rows reversed.
PhysRow(k) == IF front THEN k ELSE NROWS + 1 - k

\* What is_hole returns for the current cell of the deck's card.
OracleResult ==
    IF PunchedAt(col, PhysRow(row))
    THEN LET o == OFFSETS[(((col - 1) * NROWS + row + card.shift) % Len(OFFSETS)) + 1]
         IN <<1, 0, o[1], o[2]>>
    ELSE <<0, 0, 0, 0>>

---------------------------------------------------------------------------
(* find_holes *)

\* r.append(hole) for a front face, r.insert(0, hole) for a back face.
InsertHole_Overwrite(r, hole) == IF front THEN Append(r, hole) ELSE <<hole>>
InsertHole_Append(r, hole) == Append(r, hole)
InsertHole(r, hole) == IF front THEN Append(r, hole) ELSE <<hole>> \o r

\* if hole: delta += d * FINE_TUNE
DriftAfter_Assign(delta, hole, d) == IF hole = 1 THEN d * FINE_TUNE ELSE delta
DriftAfter(delta, hole, d) == IF hole = 1 THEN delta + d * FINE_TUNE ELSE delta

\* One iteration of the inner loop of find_holes, is_hole having returned rs.
FindHolesStep(rs) ==
    LET hs == IF row = 1 THEN Append(holes, <<>>) ELSE holes
        r  == hs[Len(hs)]
    IN  /\ pc = "find_holes"
        /\ args' = <<CellX, CellY>>
        /\ res' = rs
        /\ holes' = [hs EXCEPT ![Len(hs)] = InsertHole(r, rs[1])]
        /\ delta_x' = DriftAfter(delta_x, rs[1], rs[3])
        /\ delta_y' = DriftAfter(delta_y, rs[1], rs[4])
        /\ IF row < NROWS
           THEN row' = row + 1 /\ UNCHANGED <<col, pc>>
           ELSE IF col < NCOLS
                THEN row' = 1 /\ col' = col + 1 /\ UNCHANGED pc
                ELSE pc' = "values" /\ UNCHANGED <<col, row>>
        /\ UNCHANGED <<front, debug, values, lrl, lrr, y_front, ebcdic_out,
                       threshold, card, skewvars>>

FindHolesCell == FindHolesStep(OracleResult) /\ UNCHANGED im

\* __init__, after find_holes: the column values.
ColumnValue_NotReversed(r) == SumSeq([n \in 1..Len(r) |-> Pow2(n - 1) * r[n]])
ColumnValue_FromOne(r) ==
    LET rr == Reversed(r)
    IN  SumSeq([n \in 1..Len(rr) |-> Pow2(n) * rr[n]])
ColumnValue(r) ==
    LET rr == Reversed(r)
    IN  SumSeq([n \in 1..Len(rr) |-> Pow2(n - 1) * rr[n]])

ComputeValues ==
    /\ pc = "values"
    /\ values' = [c \in 1..Len(holes) |-> ColumnValue(holes[c])]
    /\ pc' = "done"
    /\ UNCHANGED <<front, debug, holes, lrl, lrr, y_front, delta_x, delta_y,
                   col, row, args, res, ebcdic_out, im, threshold, card, skewvars>>

\* HOLLERITH_TO_EBCDIC.get(i, 0): a dict literal keeps the last value of a key.
TableGet_DefaultSpace(i) ==
    LET hits == {n \in 1..Len(HOLLERITH_TO_EBCDIC) : HOLLERITH_TO_EBCDIC[n][1] = i}
    IN  IF hits = {} THEN 64
        ELSE HOLLERITH_TO_EBCDIC[CHOOSE n \in hits : \A m \in hits : m <= n][2]
TableGet(i) ==
    LET hits == {n \in 1..Len(HOLLERITH_TO_EBCDIC) : HOLLERITH_TO_EBCDIC[n][1] = i}
    IN  IF hits = {} THEN 0
        ELSE HOLLERITH_TO_EBCDIC[CHOOSE n \in hits : \A m \in hits : m <= n][2]

\* bytes(...) raises ValueError on an element outside 0..255.
ebcdic ==
    LET bs == [c \in 1..Len(values) |-> TableGet(values[c])]
    IN  IF \A c \in 1..Len(bs) : bs[c] \in 0..255
        THEN [raised |-> FALSE, bytes |-> bs]
        ELSE [raised |-> TRUE, bytes |-> <<>>]

Ebcdic ==
    /\ pc = "done"
    /\ ebcdic_out' = ebcdic
    /\ pc' = "ebcdic_done"
    /\ UNCHANGED <<front, debug, holes, values, lrl, lrr, y_front, delta_x, delta_y,
                   col, row, args, res, im, threshold, card, skewvars>>

---------------------------------------------------------------------------
(* The card reader on a deck of cards, is_hole given by the deck *)

EdgeLines == {[intercept |-> i * SLOPE_DEN, slope |-> s] : i \in {51}, s \in -MaxSkew..MaxSkew}

\* The state on entry to find_holes: measure_skew and find_front_edge have
\* produced the edge lines and the front edge.
Init ==
    /\ front \in BOOLEAN
    /\ debug = FALSE
    /\ holes = <<>>
    /\ values = <<>>
    /\ lrl \in EdgeLines
    /\ lrr = [intercept |-> lrl.intercept + 488 * SLOPE_DEN, slope |-> lrl.slope]
    /\ y_front = 1100
    /\ delta_x = 0
    /\ delta_y = 0
    /\ col = 1
    /\ row = 1
    /\ args = <<0, 0>>
    /\ res = <<0, 0, 0, 0>>
    /\ ebcdic_out = [raised |-> FALSE, bytes |-> <<>>]
    /\ pc = "find_holes"
    /\ im = <<>>
    /\ card \in [seed : Seeds, span : Spans, shift : 0..MaxShift, channels : {0}]
    /\ threshold = InitThreshold
    /\ SkewReturned

Next ==
    \/ FindHolesCell
    \/ ComputeValues
    \/ Ebcdic

Spec == Init /\ [][Next]_vars

---------------------------------------------------------------------------
(* is_hole on one cell of a scanned image *)

\* The speck differs from the background level by at most MaxSpeck.
MaxSpeck == 1
\* The background level differs from THRESHOLD by at most MaxLevel.
MaxLevel == 1

\* The cell looked at.
CELL_X == 100
CELL_Y == 200

\* The pixels is_hole may read or write around (x, y) are within REACH_Y rows
\* and REACH_X columns of it.
REACH_Y == HOLE_Y + MAX_DY
REACH_X == HOLE_X + MAX_DY

\* Where the speck is, relative to the cell: in every window, in the windows of
\* one extreme offset only, or in none.
SpeckRows == {-REACH_Y, 0, REACH_Y}
SpeckCols == {-REACH_X, 1 - REACH_X, 0, REACH_X - 1, REACH_X}

Scenes ==
    {[kind |-> "speck", level |-> THRESHOLD + l, speck |-> THRESHOLD + l + d,
      speck_y |-> CELL_Y + sy, speck_x |-> CELL_X + sx, channels |-> ch] :
        l \in -MaxLevel..MaxLevel, d \in -MaxSpeck..MaxSpeck,
        sy \in SpeckRows, sx \in SpeckCols, ch \in {0, 3}}

\* find_holes is about to call is_hole(CELL_X, CELL_Y) on a freshly read image.
InitHole ==
    /\ front = TRUE
    /\ debug \in BOOLEAN
    /\ holes = <<>>
    /\ values = <<>>
    /\ lrl = [intercept |-> 0, slope |-> 0]
    /\ lrr = [intercept |-> 0, slope |-> 0]
    /\ y_front = 0
    /\ delta_x = 0
    /\ delta_y = 0
    /\ col = 1
    /\ row = 1
    /\ args = <<CELL_X, CELL_Y>>
    /\ res = <<0, 0, 0, 0>>
    /\ ebcdic_out = [raised |-> FALSE, bytes |-> <<>>]
    /\ pc = "is_hole"
    /\ im = <<>>
    /\ card \in Scenes
    /\ threshold = InitThreshold
    /\ SkewReturned

IsHoleCall ==
    /\ pc = "is_hole"
    /\ \E r \in {is_hole(args[1], args[2])} : res' = r.ret /\ im' = r.im
    /\ pc' = "is_hole_done"
    /\ UNCHANGED <<front, debug, holes, values, lrl, lrr, y_front, delta_x, delta_y,
                   col, row, args, ebcdic_out, threshold, card, skewvars>>

NextHole == IsHoleCall

SpecHole == InitHole /\ [][NextHole]_vars

---------------------------------------------------------------------------
(* find_holes on the image of a card with zero skew *)

\* The holes exceed the detection window by up to MaxMarginX columns a side.
MaxMarginX == 2

\* The holes of the card lie exactly at the hole_coord predictions: their
\* centres are the integer parts of hole_coord (edge lines of slope 0).
ScanCards ==
    {[kind |-> "card", level |-> 255, seed |-> 1..NROWS, span |-> NCOLS,
      ys |-> [c \in 1..NCOLS |-> Trunc(hole_y(c, 1), UNIT * SLOPE_DEN)],
      xs |-> [r \in 1..NROWS |-> Trunc(hole_x(1, r), UNIT)],
      mx |-> m, my |-> 0, channels |-> 0] : m \in {0, MaxMarginX}}

\* measure_skew and find_front_edge have found edges of slope 0.
InitScan ==
    /\ front = TRUE
    /\ debug = FALSE
    /\ holes = <<>>
    /\ values = <<>>
    /\ lrl = [intercept |-> 51 * SLOPE_DEN, slope |-> 0]
    /\ lrr = [intercept |-> 539 * SLOPE_DEN, slope |-> 0]
    /\ y_front = 1100
    /\ delta_x = 0
    /\ delta_y = 0
    /\ col = 1
    /\ row = 1
    /\ args = <<0, 0>>
    /\ res = <<0, 0, 0, 0>>
    /\ ebcdic_out = [raised |-> FALSE, bytes |-> <<>>]
    /\ pc = "find_holes"
    /\ im = <<>>
    /\ card \in ScanCards
    /\ threshold = InitThreshold
    /\ SkewReturned

FindHolesScan ==
    \E r \in {is_hole(CellX, CellY)} : FindHolesStep(r.ret) /\ im' = r.im

NextScan ==
    \/ FindHolesScan
    \/ ComputeValues
    \/ Ebcdic

SpecScan == InitScan /\ [][NextScan]_vars

---------------------------------------------------------------------------
(* measure_skew on the image of a card on a black background *)

\* A slice bound i of a row of the image, as numpy reads it: a negative bound
\* counts from the end, and bounds are clipped to the row.
SliceBound(i) ==
    IF i < 0 THEN (IF i + card.xmax < 0 THEN 0 ELSE i + card.xmax)
    ELSE IF i > card.xmax THEN card.xmax ELSE i

\* self.im[yy][lo:hi].astype(int).sum()
RowSum(yy, lo, hi) ==
    LET P(xx) == PixelSum(yy, xx)
    IN  SumRange(P, SliceBound(lo), SliceBound(hi) - 1)

\* light - dark at column x of row yy, for the left edge
LeftContrast(yy, x) == RowSum(yy, x, x + EDGE_WIN) - RowSum(yy, x - EDGE_WIN, x)
\* light - dark at column x of row yy, for the right edge
RightContrast(yy, x) == RowSum(yy, x - EDGE_WIN, x) - RowSum(yy, x, x + EDGE_WIN)

\* if light - dark > pk: pk = light - dark; xl = x      (best = <<pk, xl>>)
Sharper(contrast, x, best) == IF contrast > best[1] THEN <<contrast, x>> ELSE best

RECURSIVE EdgeSearch(_, _, _, _, _)
\* for x in range(x, hi): the search of one edge on row yy from column x on,
\* best = <<pk, x found>> so far.
EdgeSearch(Contrast(_, _), yy, x, hi, best) ==
    IF x >= hi THEN best
    ELSE EdgeSearch(Contrast, yy, x + 1, hi, Sharper(Contrast(yy, x), x, best))

\* The edge found on row yy around the centre c: xl (xr) after the loop.
FoundEdge(Contrast(_, _), yy, c) ==
    EdgeSearch(Contrast, yy, c - EDGE_WIN, c + EDGE_WIN, <<0, 0>>)[2]

\* cl = int(cl + (xl-cl) * .125)
LowPass(c, found) == Trunc(8 * c + (found - c), 8)

\* The row the loop of measure_skew samples next.
SkewRow == SKEW_FIRST + SKEW_STEP * Len(ys)

\* One iteration of the loop of measure_skew.
MeasureSkewRow ==
    /\ pc = "measure_skew"
    /\ SkewRow < card.ymax - SKEW_MARGIN
    /\ ys' = Append(ys, SkewRow)
    /\ \E xl \in {FoundEdge(LeftContrast, SkewRow, cl)} :
          /\ left' = Append(left, xl)
          /\ cl' = LowPass(cl, xl)
    /\ \E xr \in {FoundEdge(RightContrast, SkewRow, cr)} :
          /\ right' = Append(right, xr)
          /\ cr' = LowPass(cr, cr)
    /\ UNCHANGED <<front, debug, holes, values, lrl, lrr, y_front, delta_x, delta_y,
                   col, row, args, res, ebcdic_out, pc, im, threshold, card>>

\* sum of k * v[k]
RECURSIVE WeightedSum(_)
WeightedSum(v) ==
    IF v = <<>> THEN 0 ELSE Len(v) * v[Len(v)] + WeightedSum(SubSeq(v, 1, Len(v) - 1))

\* The rows sampled are SKEW_STEP * (k + SKEW_K0) for k = 1, 2, ...
SKEW_K0 == SKEW_FIRST \div SKEW_STEP - 1

\* stats.linregress(ys, v), rounded towards zero to 1/SLOPE_DEN.  The line is
\* fitted through the points (k, v[k]): v = at0 / (n * den) + (num / den) * k.
linregress(v) ==
    LET n   == Len(v)
        sk  == (n * (n + 1)) \div 2
        skk == (n * (n + 1) * (2 * n + 1)) \div 6
        num == n * WeightedSum(v) - sk * SumSeq(v)
        den == n * skk - sk * sk
        at0 == SumSeq(v) * den - num * sk
    IN  [slope     |-> Trunc(num * SLOPE_DEN, den * SKEW_STEP),
         intercept |-> Trunc((at0 - num * n * SKEW_K0) * SLOPE_DEN, n * den)]

\* stipple(x)
stipple(x) == IF (x \div 8) % 2 = 1 THEN 255 ELSE 0

\* The modeled card edges drawn into the image (debug only), for the edge
\* lines l and r: the pixels written.
EdgesDrawn(l, r) ==
    LET cx(yy) == CenterOf(l, r, yy * UNIT * SLOPE_DEN)
    IN  [p \in {<<yy, Trunc(cx(yy) * UNIT + a * (CARD_X \div 2), UNIT)>> :
                    yy \in SKEW_FIRST..(card.ymax - SKEW_MARGIN - 1), a \in {-1, 1}}
            |-> [ch \in 1..NChan |-> stipple(p[1])]]

\* measure_skew after its loop: the regressions and the debug drawing.
MeasureSkewFit ==
    /\ pc = "measure_skew"
    /\ SkewRow >= card.ymax - SKEW_MARGIN
    /\ lrl' = linregress(left)
    /\ lrr' = linregress(right)
    /\ UNCHANGED <<front, debug, holes, values, y_front, delta_x, delta_y,
                   col, row, args, res, ebcdic_out, threshold, card, skewvars>>
    /\ im' = IF debug THEN EdgesDrawn(lrl', lrr') @@ im ELSE im
    /\ pc' = "find_front_edge"

\* The edges of the card are within MaxEdgeShift columns of where measure_skew
\* expects them on row 0, and lean by at most MaxLean columns every SKEW_STEP rows.
MaxEdgeShift == 8
MaxLean == 1

EdgeScenes ==
    {[kind |-> "edges", xmax |-> 590, ymax |-> 1181, level |-> lv, channels |-> ch,
      left |-> EXPECT_LEFT_EDGE + a, right |-> 590 + EXPECT_RIGHT_EDGE + b,
      lean |-> s] :
        lv \in {0, 255}, ch \in {0, 3},
        a \in {-MaxEdgeShift, 0, MaxEdgeShift}, b \in {-MaxEdgeShift, 0, MaxEdgeShift},
        s \in -MaxLean..MaxLean}

\* __init__ has read the image and is about to call measure_skew.
InitSkew ==
    /\ front = TRUE
    /\ debug \in BOOLEAN
    /\ holes = <<>>
    /\ values = <<>>
    /\ lrl = [intercept |-> 0, slope |-> 0]
    /\ lrr = [intercept |-> 0, slope |-> 0]
    /\ y_front = 0
    /\ delta_x = 0
    /\ delta_y = 0
    /\ col = 1
    /\ row = 1
    /\ args = <<0, 0>>
    /\ res = <<0, 0, 0, 0>>
    /\ ebcdic_out = [raised |-> FALSE, bytes |-> <<>>]
    /\ pc = "measure_skew"
    /\ im = <<>>
    /\ card \in EdgeScenes
    /\ threshold = InitThreshold
    /\ cl = EXPECT_LEFT_EDGE
    /\ cr = card.xmax + EXPECT_RIGHT_EDGE
    /\ ys = <<>>
    /\ left = <<>>
    /\ right = <<>>

NextSkew ==
    \/ MeasureSkewRow
    \/ MeasureSkewFit

SpecSkew == InitSkew /\ [][NextSkew]_vars

---------------------------------------------------------------------------
(* find_front_edge on the image of a card that ends at its front edge *)

\* The rows find_front_edge scans, and its x on row yy.
FrontRows == (card.ymax - FRONT_DEPTH + 1)..(card.ymax - FRONT_SKIP)
FrontX(yy) == center_x(yy * UNIT * SLOPE_DEN)

\* The pixels the loop of find_front_edge reads, each summed over its channels:
\* EDGE_WIN rows above and below the rows scanned, and the columns of the
\* slices x-EDGE_WIN:x+EDGE_WIN of those rows.  The loop writes nothing, so it
\* is run on this copy.
FrontPatch ==
    LET los == {SliceBound(FrontX(yy) - EDGE_WIN) : yy \in FrontRows}
        his == {SliceBound(FrontX(yy) + EDGE_WIN) - 1 : yy \in FrontRows}
        x0  == CHOOSE x \in los : \A o \in los : x <= o
        x1  == CHOOSE x \in his : \A o \in his : x >= o
    IN  [yy \in (card.ymax - FRONT_DEPTH + 1 - EDGE_WIN)..(card.ymax - FRONT_SKIP + EDGE_WIN - 1)
            |-> [xx \in x0..x1 |-> PixelSum(yy, xx)]]

\* self.im[lo:hi, x-EDGE_WIN:x+EDGE_WIN].astype(int).sum(); the rows lo..hi-1
\* of the scan are rows of the image.
BandSum(patch, lo, hi, x) ==
    LET Line(yy) == LET P(xx) == patch[yy][xx]
                    IN SumRange(P, SliceBound(x - EDGE_WIN), SliceBound(x + EDGE_WIN) - 1)
    IN  SumRange(Line, lo, hi - 1)

\* light - dark of find_front_edge on row yy
FrontContrast(patch, yy) ==
    BandSum(patch, yy - EDGE_WIN, yy, FrontX(yy))
        - BandSum(patch, yy, yy + EDGE_WIN, FrontX(yy))

\* if light - dark > yv: yb = y; yv = light - dark      (best = <<yv, yb>>)
Stronger(contrast, yy, best) == IF contrast > best[1] THEN <<contrast, yy>> ELSE best

RECURSIVE FrontSearch(_, _, _, _)
\* for y in range(hi, lo - 1, -1): the rows hi down to lo of the loop of
\* find_front_edge, best = <<yv, yb>> before them.  (The rows are done in
\* order, the upper half of the range before the lower half: that bounds the
\* depth of the evaluation.)
FrontSearch(patch, hi, lo, best) ==
    IF hi < lo THEN best
    ELSE IF hi = lo THEN Stronger(FrontContrast(patch, hi), hi, best)
    ELSE CHOOSE r \in {FrontSearch(patch, ((hi + lo) \div 2), lo, b) :
                          b \in {FrontSearch(patch, hi, ((hi + lo) \div 2) + 1, best)}} : TRUE

\* yb after the loop of find_front_edge
FrontEdgeFound ==
    CHOOSE yb \in {FrontSearch(patch, card.ymax - FRONT_SKIP,
                               card.ymax - FRONT_DEPTH + 1, <<0, card.ymax>>)[2] :
                      patch \in {FrontPatch}} : TRUE

\* The row of the image the debug line through the front edge yb has in column
\* x: int(y - (x - xc) * self.lrr.slope)
FrontLineRow(yb, x) ==
    Trunc(yb * SLOPE_DEN - (x - center_x(yb * UNIT * SLOPE_DEN)) * lrr.slope, SLOPE_DEN)

\* The columns of the debug line written before an index is out of the image:
\* all of range(xc - FRONT_HALF, xc + FRONT_HALF) when none is.
FrontLineCols(yb) ==
    LET xc  == center_x(yb * UNIT * SLOPE_DEN)
        all == (xc - FRONT_HALF)..(xc + FRONT_HALF - 1)
        bad == {x \in all : FrontLineRow(yb, x) >= card.ymax}
    IN  {x \in all : \A b \in bad : x < b}

\* The line drawn through the front edge yb (debug only): the pixels written.
FrontLineDrawn(yb) ==
    [p \in {<<FrontLineRow(yb, x), x>> : x \in FrontLineCols(yb)}
        |-> [ch \in 1..NChan |-> stipple(p[2])]]

\* The debug line needs a row that is not in the image: IndexError.
FrontLineRaises(yb) ==
    \E x \in (center_x(yb * UNIT * SLOPE_DEN) - FRONT_HALF)
                ..(center_x(yb * UNIT * SLOPE_DEN) + FRONT_HALF - 1) :
        FrontLineRow(yb, x) >= card.ymax

\* find_front_edge
FindFrontEdge ==
    /\ pc = "find_front_edge"
    /\ \E yb \in {FrontEdgeFound} :
          /\ y_front' = yb
          /\ im' = IF debug THEN FrontLineDrawn(yb) @@ im ELSE im
          /\ pc' = IF debug /\ FrontLineRaises(yb) THEN "IndexError" ELSE "find_holes"
    /\ UNCHANGED <<front, debug, holes, values, lrl, lrr, delta_x, delta_y,
                   col, row, args, res, ebcdic_out, threshold, card, skewvars>>

\* The front edge of the card is on one of these rows of the image, or beyond
\* the image for the last of them.
FrontBottoms(ymax) ==
    {ymax - FRONT_DEPTH - 6, ymax - FRONT_DEPTH + 1, ymax - FRONT_DEPTH + 100,
     ymax - FRONT_SKIP, ymax - FRONT_SKIP + 9, ymax}

\* The images of a card whose edges are the lines of slope s / SKEW_STEP through
\* columns 51 and 539 of row 0.
FrontScenes(s) ==
    {[kind |-> "front", xmax |-> 590, ymax |-> 1181, level |-> lv, channels |-> ch,
      left |-> 51, right |-> 539, lean |-> s, bottom |-> b] :
        lv \in {0, 255}, ch \in {0, 3}, b \in FrontBottoms(1181)}

\* measure_skew has found the edges of the card; __init__ is about to call
\* find_front_edge.
InitFront ==
    /\ front = TRUE
    /\ debug \in BOOLEAN
    /\ holes = <<>>
    /\ values = <<>>
    /\ lrl \in EdgeLines
    /\ lrr = [intercept |-> lrl.intercept + 488 * SLOPE_DEN, slope |-> lrl.slope]
    /\ y_front = 0
    /\ delta_x = 0
    /\ delta_y = 0
    /\ col = 1
    /\ row = 1
    /\ args = <<0, 0>>
    /\ res = <<0, 0, 0, 0>>
    /\ ebcdic_out = [raised |-> FALSE, bytes |-> <<>>]
    /\ pc = "find_front_edge"
    /\ im = <<>>
    /\ card \in FrontScenes(lrl.slope)
    /\ threshold = InitThreshold
    /\ SkewReturned

NextFront == FindFrontEdge

SpecFront == InitFront /\ [][NextFront]_vars

---------------------------------------------------------------------------
(* Properties of the card reader *)

Scanned == pc \in {"values", "done", "ebcdic_done"}
Constructed == pc \in {"done", "ebcdic_done"}

\* C1: find_holes fills the grid cell by cell, columns 1..80 and rows 1..12
\* within a column (the cells stored so far are exactly those before (col,
\* row)); once the scan is complete holes has exactly 80 columns of exactly 12
\* entries in {0,1}, and once construction is complete values has exactly 80
\* integers in 0..4095.
C1_GridComplete ==
    /\ pc = "find_holes" =>
          /\ col \in 1..80 /\ row \in 1..12
          /\ Len(holes) = (IF row = 1 THEN col - 1 ELSE col)
          /\ \A c \in 1..Len(holes) :
                Len(holes[c]) = (IF c = col THEN row - 1 ELSE 12)
          /\ row > 1 => \A i \in 1..(row - 1) : holes[col][i] \in {0, 1}
    /\ Scanned =>
          /\ Len(holes) = 80
          /\ \A c \in 1..80 :
                Len(holes[c]) = 12 /\ \A i \in 1..12 : holes[c][i] \in {0, 1}
    /\ Constructed =>
          /\ Len(values) = 80
          /\ \A c \in 1..80 : values[c] \in 0..4095

C1_Witness ==
    /\ pc = "done"
    /\ ~front
    /\ \E c \in 1..Len(holes) : holes[c][1] = 1 /\ holes[c][2] = 0 /\ values[c] >= 2048
    /\ \E c \in 1..Len(holes) : values[c] = 0

\* C2: every column value is the sum of holes[col][i] * 2^(11-i) over the stored
\* row indices i = 0..11: the first stored row is the most significant bit.
C2_RowOneIsMsb ==
    Constructed =>
        \A c \in 1..Len(holes) :
            values[c] = SumSeq([i \in 1..12 |-> holes[c][i] * Pow2(12 - i)])

C2_Witness ==
    /\ pc = "done"
    /\ \E c \in 1..Len(holes) :
          /\ holes[c][1] = 1 /\ holes[c][12] = 0
          /\ holes[c][4] = 1 /\ holes[c][9] = 0
          /\ values[c] > 2048

\* C3: a back face scan whose cells are detected in the reverse row order of
\* the front face scan of the same card stores the same grid and the same
\* values as the front face scan: a front face column is stored in detection
\* order, a back face column in the reverse of it, and both are the card's
\* physical rows 1..12.
C3_FaceSymmetry ==
    /\ Scanned =>
          \A c \in 1..80 : \A i \in 1..12 :
              /\ holes[c][i] = (IF PunchedAt(c, i) THEN 1 ELSE 0)
              /\ holes[c][i] = (IF PunchedAt(c, PhysRow(IF front THEN i ELSE 13 - i))
                                THEN 1 ELSE 0)
    /\ Constructed =>
          \A c \in 1..80 :
              values[c] = SumSeq([i \in 1..12 |->
                                    IF PunchedAt(c, i) THEN Pow2(12 - i) ELSE 0])

C3_Witness ==
    /\ pc = "done"
    /\ ~front
    /\ \E c \in 1..80 : holes[c] # Reversed(holes[c])

IsKey(v) == \E n \in 1..Len(HOLLERITH_TO_EBCDIC) : HOLLERITH_TO_EBCDIC[n][1] = v

\* C4: ebcdic() does not raise and returns exactly 80 bytes: the table's byte
\* for a value that is a key of the table, 0x00 for any other value; the keys of
\* the table are distinct integers in 0..4095 and its values are in 0..255.
C4_EbcdicTotal ==
    pc = "ebcdic_done" =>
          /\ \A n \in 1..Len(HOLLERITH_TO_EBCDIC) :
                /\ HOLLERITH_TO_EBCDIC[n][1] \in 0..4095
                /\ HOLLERITH_TO_EBCDIC[n][2] \in 0..255
                /\ \A m \in 1..Len(HOLLERITH_TO_EBCDIC) :
                      HOLLERITH_TO_EBCDIC[m][1] = HOLLERITH_TO_EBCDIC[n][1] => m = n
          /\ ~ebcdic_out.raised
          /\ Len(ebcdic_out.bytes) = 80
          /\ \A c \in 1..80 :
                /\ \A n \in 1..Len(HOLLERITH_TO_EBCDIC) :
                      HOLLERITH_TO_EBCDIC[n][1] = values[c] =>
                          ebcdic_out.bytes[c] = HOLLERITH_TO_EBCDIC[n][2]
                /\ ~IsKey(values[c]) => ebcdic_out.bytes[c] = 0

C4_Witness ==
    /\ pc = "ebcdic_done"
    /\ \E c \in 1..80 : ~IsKey(values[c]) /\ ebcdic_out.bytes[c] = 0
    /\ \E c \in 1..80 : IsKey(values[c]) /\ ebcdic_out.bytes[c] = 106

\* The card read with front=True whose only punched cell is (column 1, row 1).
OnlyCellOneOne ==
    /\ front
    /\ pc = "ebcdic_done"
    /\ holes[1] = [i \in 1..12 |-> IF i = 1 THEN 1 ELSE 0]
    /\ \A c \in 2..80 : holes[c] = [i \in 1..12 |-> 0]

\* C7 as claimed: values is zero except values[0] = 2^11, and the table maps
\* that value to the EBCDIC byte 0x41.
C7_AsClaimed ==
    OnlyCellOneOne =>
        /\ values = [c \in 1..80 |-> IF c = 1 THEN 2048 ELSE 0]
        /\ ebcdic_out.bytes[1] = 65

\* C7, amended: values is zero except values[0] = 2^11, and the table maps
\* that value to the EBCDIC byte 0x50; the other 79 columns, blank, are 0x40.
C7_SinglePunch ==
    OnlyCellOneOne =>
        /\ values = [c \in 1..80 |-> IF c = 1 THEN 2048 ELSE 0]
        /\ ebcdic_out.bytes = [c \in 1..80 |-> IF c = 1 THEN 80 ELSE 64]

C7_Witness == OnlyCellOneOne /\ ~ebcdic_out.raised

\* n is int(v / d), v and d > 0 integers: n is the integer part of v / d.
IsTruncation(n, v, d) ==
    IF v >= 0 THEN n * d <= v /\ v < (n + 1) * d
    ELSE n * d >= v /\ v > (n - 1) * d

\* C8: drift starts at (0,0); a cell classified unpunched leaves it unchanged,
\* a cell classified punched adds exactly FINE_TUNE (.05, one unit) times the
\* offset is_hole selected, and nothing else changes it (it is never reset);
\* is_hole is called with the integer parts of hole_coord(col, row) plus the
\* drift accumulated from the earlier cells.
C8_Drift ==
    /\ delta_x = 0 /\ delta_y = 0
    /\ [][ /\ (res'[1] = 0 \/ pc # "find_holes") =>
                 (delta_x' = delta_x /\ delta_y' = delta_y)
           /\ (res'[1] = 1 /\ pc = "find_holes") =>
                 /\ 20 * (delta_x' - delta_x) = res'[3] * UNIT
                 /\ 20 * (delta_y' - delta_y) = res'[4] * UNIT
           /\ pc = "find_holes" =>
                 /\ IsTruncation(args'[1], hole_coord(col, row)[1] + delta_x, UNIT)
                 /\ IsTruncation(args'[2],
                                 hole_coord(col, row)[2] + delta_y * SLOPE_DEN,
                                 UNIT * SLOPE_DEN)
         ]_vars

C8_Witness ==
    /\ pc = "find_holes"
    /\ col > 1
    /\ res[1] = 0
    /\ delta_x # 0 /\ delta_y # 0
    /\ args[1] * UNIT > hole_coord(col, row)[1]

---------------------------------------------------------------------------
(* Properties of is_hole *)

\* The sum of the image as loaded over the 13 x 7 window at offset (dx, dy)
\* from the cell, all channels.
C5_Sum(dx, dy) ==
    LET Pix(yy, xx) == LET C(ch) == Loaded(yy, xx, ch) IN SumRange(C, 1, NChan)
        Line(yy) == LET P(xx) == Pix(yy, xx)
                    IN SumRange(P, args[1] + dx - 6, args[1] + dx + 6)
    IN  SumRange(Line, args[2] + dy - 3, args[2] + dy + 3)

C5_MinSum ==
    LET S == {C5_Sum(dx, dy) : dx \in {-1, 0, 1}, dy \in {-2, -1, 0, 1, 2}}
    IN  CHOOSE m \in S : \A n \in S : m <= n

\* C5: is_hole classifies the cell as punched if and only if the minimum window
\* sum over the 15 offsets is strictly less than 4550, times the number of
\* channels for a 3-dimensional image, and then returns that minimum as weight.
C5_StrictThreshold ==
    pc = "is_hole_done" =>
        \E m \in {C5_MinSum} :
            /\ res[1] = 1 <=> m < 4550 * (IF card.channels = 0 THEN 1 ELSE card.channels)
            /\ res[1] = 1 => res[2] = m
            /\ res[1] \in {0, 1}

C5_Witness ==
    /\ pc = "is_hole_done"
    /\ card.channels = 3
    /\ res = <<1, 3 * 4550 - 1, 1, 2>>

\* C6 as claimed: with no debug image requested the image is as loaded.
C6_ImageUnchanged ==
    ~debug => \A p \in DOMAIN im : \A ch \in 1..NChan : im[p][ch] = Loaded(p[1], p[2], ch)

---------------------------------------------------------------------------
(* Properties of the drift *)

\* C9 as claimed: on a card with zero skew whose holes lie exactly at the
\* hole_coord predictions, the drift stays within one pixel of 0 in x and
\* within two pixels of 0 in y in every state of the scan.
C9_NoRunawayDrift ==
    /\ delta_x >= -1 * UNIT /\ delta_x <= 1 * UNIT
    /\ delta_y >= -2 * UNIT /\ delta_y <= 2 * UNIT

---------------------------------------------------------------------------
(* Properties of measure_skew *)

RECURSIVE Filtered(_, _)
\* The search centre after the rows whose found edges are xs, from centre c on,
\* by the low-pass rule centre := int(centre + (found - centre) * .125).
Filtered(c, xs) ==
    IF xs = <<>> THEN c ELSE Filtered(Trunc(8 * c + (Head(xs) - c), 8), Tail(xs))

\* The left search centre follows the left edges found, by the low-pass rule.
C10_LeftCenterFiltered ==
    pc = "measure_skew" => cl = Filtered(EXPECT_LEFT_EDGE, left)

\* C10 as claimed: in measure_skew the search centre of the left edge and the
\* search centre of the right edge used on the next sampled row are each the
\* previous centre moved towards the x found on the current row by the rule
\* centre := int(centre + (found - centre) * .125).
C10_BothCentersFiltered ==
    pc = "measure_skew" =>
        /\ cl = Filtered(EXPECT_LEFT_EDGE, left)
        /\ cr = Filtered(card.xmax + EXPECT_RIGHT_EDGE, right)

\* No candidate x around the centre c beats the initial best score 0 on row yy.
NoEdge(Contrast(_, _), yy, c) ==
    \A x \in (c - EDGE_WIN)..(c + EDGE_WIN - 1) : Contrast(yy, x) <= 0

\* The search centres measure_skew used on its k-th sampled row: the left one
\* follows the left edges found so far, the right one stays where it started.
LeftCenterAt(k) == Filtered(EXPECT_LEFT_EDGE, SubSeq(left, 1, k - 1))
RightCenterAt(k) == card.xmax + EXPECT_RIGHT_EDGE

\* The search centres are those, on every sampled row.
CentersUsed ==
    pc = "measure_skew" =>
        /\ cl = LeftCenterAt(Len(left) + 1)
        /\ cr = RightCenterAt(Len(right) + 1)

\* C11 as claimed: on a sampled row where no candidate x of the search
\* neighbourhood has a contrast greater than 0, the edge position appended to
\* the regression series is the search centre used on that row, and the centre
\* carried to the next row is that same centre; for the left and the right edge.
C11_KeepsPreviousCenter ==
    pc = "measure_skew" =>
        \A k \in 1..Len(ys) :
            /\ NoEdge(LeftContrast, ys[k], LeftCenterAt(k)) =>
                  /\ left[k] = LeftCenterAt(k)
                  /\ LeftCenterAt(k + 1) = LeftCenterAt(k)
            /\ NoEdge(RightContrast, ys[k], RightCenterAt(k)) =>
                  /\ right[k] = RightCenterAt(k)
                  /\ RightCenterAt(k + 1) = RightCenterAt(k)

---------------------------------------------------------------------------
(* Properties of find_front_edge *)

\* The above-minus-below contrast of row yy of the image as loaded: the
\* EDGE_WIN rows above row yy minus the EDGE_WIN rows from row yy on, over the
\* 2*EDGE_WIN columns around center_x(yy).
C12_Contrast(yy) ==
    LET Pix(r, xx) == LET C(ch) == Loaded(r, xx, ch) IN SumRange(C, 1, NChan)
        Line(r) == LET P(xx) == Pix(r, xx)
                   IN SumRange(P, FrontX(yy) - EDGE_WIN, FrontX(yy) + EDGE_WIN - 1)
    IN  SumRange(Line, yy - EDGE_WIN, yy - 1) - SumRange(Line, yy, yy + EDGE_WIN - 1)

\* find_front_edge has returned (or raised while drawing the debug line).
FrontEdgeSet == pc \in {"find_holes", "IndexError"}

\* C12 as claimed: find_front_edge sets y_front to a row of the scanned range
\* ymax-199 .. ymax-20, for every image, and the above-minus-below contrast of
\* that row is maximal over the scanned range.
C12_FrontEdgeInRange ==
    FrontEdgeSet =>
        /\ y_front >= card.ymax - 199
        /\ y_front <= card.ymax - 20
        /\ \A yy \in FrontRows : C12_Contrast(yy) <= C12_Contrast(y_front)

====
